---- MODULE Spec2Model ----
(***************************************************************************)
(* YockEngine: the sprite simulation of YockEngine.cpp as a state machine. *)
(* The frame loop of main() is followed pass by pass (pc), so that the     *)
(* order of the passes inside one frame is part of the model.              *)
(*                                                                         *)
(* Time is kept in SDL ticks (milliseconds).  deltaTime is the tick        *)
(* difference of the frame; the float product speed * deltaTime * 60 is    *)
(* computed exactly as speed * ms * 60 / 1000 and truncated toward zero,   *)
(* which agrees with the float computation for every tick difference used  *)
(* here (none of the products is within 0.01 of an integer).               *)
(*                                                                         *)
(* id, frame, slid, nextId, ledger and hits are history variables: no      *)
(* action reads them to decide what the program does.                      *)
(***************************************************************************)
EXTENDS Integers, Sequences, FiniteSets, TLC

VARIABLES
    pc,          \* position of main(): load, check, loop, poll, ui, spawn, ...
    textures,    \* std::vector<SDL_Texture*>: 0 is nullptr
    sprites,     \* std::vector<Sprite>
    spawnTimer,  \* int spawnTimer
    isRunning,   \* bool isRunning
    deltaTime,   \* tick difference of the current frame (ms), 0 outside a frame
    frame,       \* history: number of loop iterations entered
    slid,        \* history: value the slider wrote in this frame, or NoDrag
    nextId,      \* history: number of sprites spawned so far
    ledger,      \* history: per spawned sprite, its birth frame and lifetime
    hits,        \* history: colliding pairs of this frame's collision pass
    ra, rb,      \* the two rectangles of a checkCollision call
    hitAB, hitBA \* its results for (ra, rb) and for (rb, ra); <<>> before

vars == <<pc, textures, sprites, spawnTimer, isRunning, deltaTime, frame,
          slid, nextId, ledger, hits, ra, rb, hitAB, hitBA>>

simVars == <<pc, textures, sprites, spawnTimer, isRunning, deltaTime, frame,
             slid, nextId, ledger, hits>>

rectVars == <<ra, rb, hitAB, hitBA>>

----------------------------------------------------------------------------
(* Program constants *)

SCREEN_WIDTH == 800
SCREEN_HEIGHT == 600
SPRITE_SIZE == 50
SPAWN_THRESHOLD == 30
SLIDER_MIN == 0
SLIDER_MAX == 60
REFERENCE_FPS == 60
TICKS_PER_SECOND == 1000
SPEED_RANGE == 5
LIFETIME_RANGE == 300
LIFETIME_BASE == 100

(* Bounds of the model *)

MaxFrames == 3       \* frames of a run of Spec
LifeFrames == 165    \* frames of a run of SpecLife and of SpecHold
CrowdFrames == 435   \* frames of a run of SpecCrowd
QuitFrames == 2      \* frames of a run of SpecQuit
MaxCoord == 2        \* rectangle coordinates of SpecRect are -1..MaxCoord
MaxSize == 2         \* rectangle sizes of SpecRect are 0..MaxSize

NoDrag == -1
NullTexture == 0

----------------------------------------------------------------------------
(* Pure functions *)

\* faulty variant: the comparisons made non-strict, so that touching edges collide
checkCollisionClosed(a, b) ==
    /\ a.x <= b.x + b.w
    /\ a.x + a.w >= b.x
    /\ a.y <= b.y + b.h
    /\ a.y + a.h >= b.y

\* faulty variant: only the first comparison made non-strict
checkCollisionTouch(a, b) ==
    /\ a.x <= b.x + b.w
    /\ a.x + a.w > b.x
    /\ a.y < b.y + b.h
    /\ a.y + a.h > b.y

\* bool checkCollision(const SDL_Rect& a, const SDL_Rect& b)
checkCollision(a, b) ==
    /\ a.x < b.x + b.w
    /\ a.x + a.w > b.x
    /\ a.y < b.y + b.h
    /\ a.y + a.h > b.y

\* faulty variant: the product is rounded down instead of toward zero
DisplacementFloor(speed, ms) ==
    (speed * ms * REFERENCE_FPS) \div TICKS_PER_SECOND

\* static_cast<int>(speed * deltaTime * 60): truncation toward zero
Displacement(speed, ms) ==
    LET n == speed * ms * REFERENCE_FPS
    IN  IF n >= 0 THEN n \div TICKS_PER_SECOND
                  ELSE -((-n) \div TICKS_PER_SECOND)

\* faulty variant: the sprite size is not taken off the screen extent
RandomPositionFull(r, extent) == r % extent

\* line 63: rand() % (SCREEN_WIDTH - 50), rand() % (SCREEN_HEIGHT - 50)
RandomPosition(r, extent) == r % (extent - SPRITE_SIZE)

\* faulty variant: the + 1 that avoids a zero speed is missing
RandomSpeedMayStop(rmag, rsign) ==
    (rmag % SPEED_RANGE) * (IF rsign % 2 # 0 THEN 1 ELSE -1)

\* lines 65-66: (rand() % 5 + 1) * (rand() % 2 ? 1 : -1)
RandomSpeed(rmag, rsign) ==
    ((rmag % SPEED_RANGE) + 1) * (IF rsign % 2 # 0 THEN 1 ELSE -1)

\* Sprite spawnSprite(textures), r being the eight values rand() returns
spawnSprite(texs, r) ==
    [rect     |-> [x |-> RandomPosition(r[1], SCREEN_WIDTH),
                   y |-> RandomPosition(r[2], SCREEN_HEIGHT),
                   w |-> SPRITE_SIZE, h |-> SPRITE_SIZE],
     speedX   |-> RandomSpeed(r[3], r[4]),
     speedY   |-> RandomSpeed(r[5], r[6]),
     lifetime |-> (r[7] % LIFETIME_RANGE) + LIFETIME_BASE,
     texture  |-> texs[(r[8] % Len(texs)) + 1]]

\* faulty variant: the spawn fires when the counter reaches the threshold
SpawnDueAtThreshold(timer) == timer >= SPAWN_THRESHOLD

\* line 149: if (spawnTimer > 30), timer being the incremented counter
SpawnDue(timer) == timer > SPAWN_THRESHOLD

\* lines 160-161: position += (int)(speed * deltaTime * 60)
Integrate(s, ms) ==
    [s EXCEPT !.rect.x = @ + Displacement(s.speedX, ms),
              !.rect.y = @ + Displacement(s.speedY, ms)]

\* faulty variant: a sprite exactly on the bound does not bounce
BounceStrict(s) ==
    [s EXCEPT !.speedX = IF s.rect.x < 0 \/ s.rect.x + s.rect.w > SCREEN_WIDTH
                         THEN -@ ELSE @,
              !.speedY = IF s.rect.y < 0 \/ s.rect.y + s.rect.h > SCREEN_HEIGHT
                         THEN -@ ELSE @]

\* lines 164-169: bounce off screen edges
Bounce(s) ==
    [s EXCEPT !.speedX = IF s.rect.x <= 0 \/ s.rect.x + s.rect.w >= SCREEN_WIDTH
                         THEN -@ ELSE @,
              !.speedY = IF s.rect.y <= 0 \/ s.rect.y + s.rect.h >= SCREEN_HEIGHT
                         THEN -@ ELSE @]

\* faulty variant: the lifetime is taken down twice in a frame
AgeTwice(s) == [s EXCEPT !.lifetime = @ - 2]

\* line 172: lifetime--
Age(s) == [s EXCEPT !.lifetime = @ - 1]

\* body of the update loop, lines 160-172
UpdateSprite(s, ms) == Age(Bounce(Integrate(s, ms)))

\* faulty variant: the update loop erases a sprite as soon as its lifetime
\* is used up
UpdateAllErasing(seq, ms) ==
    SelectSeq([i \in DOMAIN seq |-> UpdateSprite(seq[i], ms)],
              LAMBDA s : s.lifetime > 0)

\* the update loop, lines 159-173
UpdateAll(seq, ms) == [i \in DOMAIN seq |-> UpdateSprite(seq[i], ms)]

\* faulty variant: only the horizontal direction is reversed
ReverseXOnly(s) == [s EXCEPT !.speedX = -@]

\* lines 180-184: reverse direction of one sprite
Reverse(s) == [s EXCEPT !.speedX = -@, !.speedY = -@]

\* faulty variant: the comparisons are <=, so a tie moves the first sprite
\* left and up
SeparateTieLeft(a, b) ==
    LET dx == IF a.rect.x <= b.rect.x THEN -1 ELSE 1
        dy == IF a.rect.y <= b.rect.y THEN -1 ELSE 1
    IN  <<[a EXCEPT !.rect.x = @ + dx, !.rect.y = @ + dy],
          [b EXCEPT !.rect.x = @ - dx, !.rect.y = @ - dy]>>

\* lines 187-203: one-unit separation of the pair (a before b)
Separate(a, b) ==
    LET dx == IF a.rect.x < b.rect.x THEN -1 ELSE 1
        dy == IF a.rect.y < b.rect.y THEN -1 ELSE 1
    IN  <<[a EXCEPT !.rect.x = @ + dx, !.rect.y = @ + dy],
          [b EXCEPT !.rect.x = @ - dx, !.rect.y = @ - dy]>>

\* body of the inner collision loop for the pair (i, j), lines 178-204
RespondPair(seq, i, j) ==
    IF checkCollision(seq[i].rect, seq[j].rect)
    THEN LET p == Separate(Reverse(seq[i]), Reverse(seq[j]))
         IN  [seq EXCEPT ![i] = p[1], ![j] = p[2]]
    ELSE seq

\* the inner collision loop of sprite i from partner j on, lines 177-205
RECURSIVE CollideRow(_, _, _)
CollideRow(seq, i, j) ==
    IF j > Len(seq) THEN seq
    ELSE CollideRow(RespondPair(seq, i, j), i, j + 1)

\* the collision loops from the pair (i, j) on, lines 176-206
RECURSIVE CollideFrom(_, _, _)
CollideFrom(seq, i, j) ==
    IF i > Len(seq) THEN seq
    ELSE CollideFrom(CollideRow(seq, i, j), i + 1, i + 2)

\* faulty variant: the outer loop runs to size() - 1, an unsigned value that
\* wraps on an empty collection, and the pass works on what lies behind it
CollideAllUnderflow(seq) ==
    IF seq = <<>>
    THEN <<[id |-> 0,
            rect |-> [x |-> 0, y |-> 0, w |-> 0, h |-> 0],
            speedX |-> 0, speedY |-> 0, lifetime |-> 0, texture |-> NullTexture]>>
    ELSE CollideFrom(seq, 1, 2)

\* faulty variant: the collision loops are run twice in a frame
CollideAllTwice(seq) == CollideFrom(CollideFrom(seq, 1, 2), 1, 2)

\* the collision pass, lines 175-206
CollideAll(seq) == CollideFrom(seq, 1, 2)

\* how many partners from j on the inner loop of sprite i finds colliding
RECURSIVE HitsRow(_, _, _)
HitsRow(seq, i, j) ==
    IF j > Len(seq) THEN 0
    ELSE (IF checkCollision(seq[i].rect, seq[j].rect) THEN 1 ELSE 0)
         + HitsRow(RespondPair(seq, i, j), i, j + 1)

\* how many pairs the same loops find colliding
RECURSIVE HitsFrom(_, _, _)
HitsFrom(seq, i, j) ==
    IF i > Len(seq) THEN 0
    ELSE HitsRow(seq, i, j) + HitsFrom(CollideRow(seq, i, j), i + 1, i + 2)

\* sprites.erase(it): the sequence without its element at position it
Erase(seq, it) == SubSeq(seq, 1, it - 1) \o SubSeq(seq, it + 1, Len(seq))

\* faulty variant: the iterator is advanced after an erase as well, so the
\* element that follows an erased one is not looked at
RECURSIVE EraseLoopSkipping(_, _)
EraseLoopSkipping(seq, it) ==
    IF it > Len(seq) THEN seq
    ELSE IF seq[it].lifetime <= 0 THEN EraseLoopSkipping(Erase(seq, it), it + 1)
    ELSE EraseLoopSkipping(seq, it + 1)

\* faulty variant: a sprite is erased only when its lifetime is below zero
RECURSIVE EraseLoopLate(_, _)
EraseLoopLate(seq, it) ==
    IF it > Len(seq) THEN seq
    ELSE IF seq[it].lifetime < 0 THEN EraseLoopLate(Erase(seq, it), it)
    ELSE EraseLoopLate(seq, it + 1)

\* one remove-expired loop from iterator position it on, lines 209-216
RECURSIVE EraseLoop(_, _)
EraseLoop(seq, it) ==
    IF it > Len(seq) THEN seq
    ELSE IF seq[it].lifetime <= 0 THEN EraseLoop(Erase(seq, it), it)
    ELSE EraseLoop(seq, it + 1)

RemoveExpired(seq) == EraseLoop(seq, 1)

----------------------------------------------------------------------------
(* Inputs *)

\* tick differences of a frame: below, at and twice the 60 Hz frame time
\* (at these tick counts the float product speed * deltaTime * 60 and the
\* exact product have the same integer part for every speed in -5..5)
Deltas == {16, 17, 34}
NominalDelta == {17}

\* values the slider writes when dragged
SliderValues == {0, 29, 30, 60}

\* outcomes of the eight rand() calls of one spawnSprite
Draws ==
    { <<0, 0, 0, 0, 0, 0, 0, 0>>,
      <<749, 549, 4, 1, 4, 1, 299, 2>>,
      <<32767, 32767, 32767, 32767, 32767, 32767, 32767, 32767>>,
      <<751, 599, 7, 2, 9, 3, 300, 5>> }

LifeDraws ==
    { <<0, 0, 0, 0, 0, 0, 0, 0>>,
      <<751, 599, 7, 2, 9, 3, 31, 5>> }

\* the longest lifetime rand() % 300 + 100 can give
CrowdDraws ==
    { <<32767, 32767, 32767, 32767, 32767, 32767, 299, 32767>> }

\* first frame in which the slider is held: the frame after the second spawn
HoldFrom == 2 * (SPAWN_THRESHOLD + 1) + 1

\* outcomes of loadTexture for the three files: a handle, or nullptr
LoadOutcomes ==
    { <<1, 2, 3>>, <<NullTexture, 2, 3>>, <<1, NullTexture, 3>>,
      <<1, 2, NullTexture>>, <<NullTexture, NullTexture, NullTexture>> }

----------------------------------------------------------------------------
(* The program *)

IdleRect == [x |-> 0, y |-> 0, w |-> 0, h |-> 0]

Init ==
    /\ pc = "load"
    /\ textures = <<>>
    /\ sprites = <<>>
    /\ spawnTimer = 0
    /\ isRunning = TRUE
    /\ deltaTime = 0
    /\ frame = 0
    /\ slid = NoDrag
    /\ nextId = 0
    /\ ledger = <<>>
    /\ hits = 0
    /\ ra = IdleRect /\ rb = IdleRect
    /\ hitAB = <<>> /\ hitBA = <<>>

\* lines 105-108
LoadTextures ==
    /\ pc = "load"
    /\ \E out \in LoadOutcomes : textures' = out
    /\ pc' = "check"
    /\ UNCHANGED <<sprites, spawnTimer, isRunning, deltaTime, frame, slid,
                   nextId, ledger, hits>>
    /\ UNCHANGED rectVars

\* faulty variant: only the first texture is checked
CheckTexturesFirstOnly ==
    /\ pc = "check"
    /\ pc' = IF textures[1] = NullTexture THEN "failed" ELSE "loop"
    /\ UNCHANGED <<textures, sprites, spawnTimer, isRunning, deltaTime, frame,
                   slid, nextId, ledger, hits>>
    /\ UNCHANGED rectVars

\* lines 111-122
CheckTextures ==
    /\ pc = "check"
    /\ pc' = IF \E i \in DOMAIN textures : textures[i] = NullTexture
             THEN "failed" ELSE "loop"
    /\ UNCHANGED <<textures, sprites, spawnTimer, isRunning, deltaTime, frame,
                   slid, nextId, ledger, hits>>
    /\ UNCHANGED rectVars

\* line 127: while (isRunning); lines 246-250 when it is false
LoopTest(maxFrames) ==
    /\ pc = "loop"
    /\ IF isRunning
       THEN /\ frame < maxFrames
            /\ pc' = "poll"
            /\ frame' = frame + 1
       ELSE /\ pc' = "done"
            /\ frame' = frame
    /\ UNCHANGED <<textures, sprites, spawnTimer, isRunning, deltaTime, slid,
                   nextId, ledger, hits>>
    /\ UNCHANGED rectVars

\* faulty variant: an SDL_QUIT leaves the frame at once
PollEventsBreak ==
    /\ pc = "poll"
    /\ \E quit \in BOOLEAN :
         /\ isRunning' = IF quit THEN FALSE ELSE isRunning
         /\ pc' = IF quit THEN "loop" ELSE "ui"
    /\ UNCHANGED <<textures, sprites, spawnTimer, deltaTime, frame, slid,
                   nextId, ledger, hits>>
    /\ UNCHANGED rectVars

\* lines 129-134: the event loop; quit says whether an SDL_QUIT was polled
PollEvents ==
    /\ pc = "poll"
    /\ \E quit \in BOOLEAN : isRunning' = IF quit THEN FALSE ELSE isRunning
    /\ pc' = "ui"
    /\ UNCHANGED <<textures, sprites, spawnTimer, deltaTime, frame, slid,
                   nextId, ledger, hits>>
    /\ UNCHANGED rectVars

\* lines 142-145: ImGui::SliderInt("Spawn Timer", &spawnTimer, 0, 60)
DebugUI(values) ==
    /\ pc = "ui"
    /\ \E v \in values \cup {NoDrag} :
         /\ v # NoDrag => (SLIDER_MIN <= v /\ v <= SLIDER_MAX)
         /\ spawnTimer' = IF v = NoDrag THEN spawnTimer ELSE v
         /\ slid' = v
    /\ pc' = "spawn"
    /\ UNCHANGED <<textures, sprites, isRunning, deltaTime, frame, nextId,
                   ledger, hits>>
    /\ UNCHANGED rectVars

\* the same slider, held at 0 by the user in every frame from frame from on
\* and not touched before
DebugUIHeld(from) ==
    /\ pc = "ui"
    /\ LET v == IF frame >= from THEN SLIDER_MIN ELSE NoDrag
       IN  /\ spawnTimer' = IF v = NoDrag THEN spawnTimer ELSE v
           /\ slid' = v
    /\ pc' = "spawn"
    /\ UNCHANGED <<textures, sprites, isRunning, deltaTime, frame, nextId,
                   ledger, hits>>
    /\ UNCHANGED rectVars

\* lines 148-152
SpawnGate(draws) ==
    /\ pc = "spawn"
    /\ IF SpawnDue(spawnTimer + 1)
       THEN \E r \in draws :
              LET s == spawnSprite(textures, r)
              IN  /\ sprites' = Append(sprites, [id |-> nextId + 1] @@ s)
                  /\ spawnTimer' = 0
                  /\ nextId' = nextId + 1
                  /\ ledger' = Append(ledger, [born |-> frame,
                                               life |-> s.lifetime,
                                               died |-> 0])
       ELSE /\ spawnTimer' = spawnTimer + 1
            /\ UNCHANGED <<sprites, nextId, ledger>>
    /\ pc' = "update"
    /\ UNCHANGED <<textures, isRunning, deltaTime, frame, slid, hits>>
    /\ UNCHANGED rectVars

\* lines 155-173
UpdatePass(deltas) ==
    /\ pc = "update"
    /\ \E ms \in deltas :
         /\ deltaTime' = ms
         /\ sprites' = UpdateAll(sprites, ms)
    /\ pc' = "collide"
    /\ UNCHANGED <<textures, spawnTimer, isRunning, frame, slid, nextId,
                   ledger, hits>>
    /\ UNCHANGED rectVars

\* lines 176-206
CollisionPass ==
    /\ pc = "collide"
    /\ sprites' = CollideAll(sprites)
    /\ hits' = HitsFrom(sprites, 1, 2)
    /\ pc' = "expire"
    /\ UNCHANGED <<textures, spawnTimer, isRunning, deltaTime, frame, slid,
                   nextId, ledger>>
    /\ UNCHANGED rectVars

\* the ledger with the sprites that left the collection marked
Buried(after) ==
    [i \in DOMAIN ledger |->
        IF ledger[i].died = 0 /\ (\E k \in DOMAIN sprites : sprites[k].id = i)
                              /\ ~(\E k \in DOMAIN after : after[k].id = i)
        THEN [ledger[i] EXCEPT !.died = frame]
        ELSE ledger[i]]

\* lines 209-216
ExpirePass ==
    /\ pc = "expire"
    /\ sprites' = RemoveExpired(sprites)
    /\ ledger' = Buried(RemoveExpired(sprites))
    /\ pc' = "expire2"
    /\ UNCHANGED <<textures, spawnTimer, isRunning, deltaTime, frame, slid,
                   nextId, hits>>
    /\ UNCHANGED rectVars

\* lines 219-226
ExpirePassAgain ==
    /\ pc = "expire2"
    /\ sprites' = RemoveExpired(sprites)
    /\ ledger' = Buried(RemoveExpired(sprites))
    /\ pc' = "render"
    /\ UNCHANGED <<textures, spawnTimer, isRunning, deltaTime, frame, slid,
                   nextId, hits>>
    /\ UNCHANGED rectVars

\* lines 229-242: the sprites are drawn, nothing of the simulation changes
Render ==
    /\ pc = "render"
    /\ pc' = "loop"
    /\ deltaTime' = 0
    /\ slid' = NoDrag
    /\ hits' = 0
    /\ UNCHANGED <<textures, sprites, spawnTimer, isRunning, frame, nextId,
                   ledger>>
    /\ UNCHANGED rectVars

Next ==
    \/ LoadTextures
    \/ CheckTextures
    \/ LoopTest(MaxFrames)
    \/ PollEvents
    \/ DebugUI(SliderValues)
    \/ SpawnGate(Draws)
    \/ UpdatePass(Deltas)
    \/ CollisionPass
    \/ ExpirePass
    \/ ExpirePassAgain
    \/ Render

Spec == Init /\ [][Next]_vars

\* the same program left alone: the slider is never dragged and every frame
\* takes the 60 Hz frame time
NextLife ==
    \/ LoadTextures
    \/ CheckTextures
    \/ LoopTest(LifeFrames)
    \/ PollEvents
    \/ DebugUI({})
    \/ SpawnGate(LifeDraws)
    \/ UpdatePass(NominalDelta)
    \/ CollisionPass
    \/ ExpirePass
    \/ ExpirePassAgain
    \/ Render

SpecLife == Init /\ [][NextLife]_vars

\* a few frames of the program, the slider left alone or dragged to its
\* maximum; its one thread never stops while it has a step to take
NextQuit ==
    \/ LoadTextures
    \/ CheckTextures
    \/ LoopTest(QuitFrames)
    \/ PollEvents
    \/ DebugUI({SLIDER_MAX})
    \/ SpawnGate(Draws)
    \/ UpdatePass(NominalDelta)
    \/ CollisionPass
    \/ ExpirePass
    \/ ExpirePassAgain
    \/ Render

SpecQuit == Init /\ [][NextQuit]_vars /\ WF_vars(NextQuit)

\* the program with the slider held at 0 after the second spawn, so that no
\* further sprite is spawned and the collection runs empty
NextHold ==
    \/ LoadTextures
    \/ CheckTextures
    \/ LoopTest(LifeFrames)
    \/ PollEvents
    \/ DebugUIHeld(HoldFrom)
    \/ SpawnGate(LifeDraws)
    \/ UpdatePass(NominalDelta)
    \/ CollisionPass
    \/ ExpirePass
    \/ ExpirePassAgain
    \/ Render

SpecHold == Init /\ [][NextHold]_vars

\* the program left alone while every sprite gets the longest lifetime
NextCrowd ==
    \/ LoadTextures
    \/ CheckTextures
    \/ LoopTest(CrowdFrames)
    \/ PollEvents
    \/ DebugUI({})
    \/ SpawnGate(CrowdDraws)
    \/ UpdatePass(NominalDelta)
    \/ CollisionPass
    \/ ExpirePass
    \/ ExpirePassAgain
    \/ Render

SpecCrowd == Init /\ [][NextCrowd]_vars

----------------------------------------------------------------------------
(* checkCollision on its own: the rectangles are drawn at the start, and    *)
(* the function is called on them in both argument orders.                  *)

Coords == -1 .. MaxCoord
Sizes == 0 .. MaxSize

SmallRects == [x : Coords, y : Coords, w : Sizes, h : Sizes]

\* the rectangles of the edge-sharing and the one-unit-overlap examples
EdgePair == <<[x |-> 0, y |-> 0, w |-> 10, h |-> 10],
              [x |-> 10, y |-> 0, w |-> 10, h |-> 10]>>
OverlapPair == <<[x |-> 0, y |-> 0, w |-> 10, h |-> 10],
                 [x |-> 9, y |-> 0, w |-> 10, h |-> 10]>>
CornerPair == <<[x |-> 0, y |-> 0, w |-> 10, h |-> 10],
                [x |-> 10, y |-> 10, w |-> 10, h |-> 10]>>

InitRect ==
    /\ pc = "rect"
    /\ textures = <<>>
    /\ sprites = <<>>
    /\ spawnTimer = 0
    /\ isRunning = TRUE
    /\ deltaTime = 0
    /\ frame = 0
    /\ slid = NoDrag
    /\ nextId = 0
    /\ ledger = <<>>
    /\ hits = 0
    /\ \E pair \in (SmallRects \X SmallRects)
                     \cup {EdgePair, OverlapPair, CornerPair} :
         ra = pair[1] /\ rb = pair[2]
    /\ hitAB = <<>> /\ hitBA = <<>>

\* checkCollision(ra, rb)
CallAB ==
    /\ pc = "rect"
    /\ hitAB = <<>>
    /\ hitAB' = <<checkCollision(ra, rb)>>
    /\ UNCHANGED <<ra, rb, hitBA>>
    /\ UNCHANGED simVars

\* checkCollision(rb, ra)
CallBA ==
    /\ pc = "rect"
    /\ hitBA = <<>>
    /\ hitBA' = <<checkCollision(rb, ra)>>
    /\ UNCHANGED <<ra, rb, hitAB>>
    /\ UNCHANGED simVars

NextRect == CallAB \/ CallBA

SpecRect == InitRect /\ [][NextRect]_vars

----------------------------------------------------------------------------
(* Properties of checkCollision, under SpecRect *)

\* some point with half-integer coordinates lies strictly inside both
\* rectangles (px, py are the doubled coordinates of the point)
InteriorsOverlap(a, b) ==
    \E px \in 2 * a.x .. 2 * (a.x + a.w) :
    \E py \in 2 * a.y .. 2 * (a.y + a.h) :
        /\ 2 * a.x < px /\ px < 2 * (a.x + a.w)
        /\ 2 * b.x < px /\ px < 2 * (b.x + b.w)
        /\ 2 * a.y < py /\ py < 2 * (a.y + a.h)
        /\ 2 * b.y < py /\ py < 2 * (b.y + b.h)

C4_Returned ==
    hitAB # <<>> =>
        /\ hitAB[1] = (/\ ra.x < rb.x + rb.w
                       /\ ra.x + ra.w > rb.x
                       /\ ra.y < rb.y + rb.h
                       /\ ra.y + ra.h > rb.y)
        /\ (ra.w > 0 /\ ra.h > 0 /\ rb.w > 0 /\ rb.h > 0)
              => (hitAB[1] = InteriorsOverlap(ra, rb))
        /\ <<ra, rb>> = EdgePair => hitAB[1] = FALSE
        /\ <<ra, rb>> = CornerPair => hitAB[1] = FALSE
        /\ <<ra, rb>> = OverlapPair => hitAB[1] = TRUE

\* C4: checkCollision(A, B) is true exactly when A.x < B.x+B.w, A.x+A.w > B.x,
\* A.y < B.y+B.h and A.y+A.h > B.y; for rectangles of positive width and
\* height that is exactly when their open interiors share a point, so
\* rectangles sharing only an edge or a corner do not collide and rectangles
\* overlapping by one unit do; and the call changes neither argument.
C4_CollisionContract ==
    /\ []C4_Returned
    /\ [][ra' = ra /\ rb' = rb]_vars

C4_Witness ==
    /\ <<ra, rb>> = EdgePair
    /\ hitAB = <<FALSE>>

\* C5: checkCollision(A, B) = checkCollision(B, A) for all rectangles A and
\* B, rectangles of zero width or height included.
C5_Symmetric ==
    (hitAB # <<>> /\ hitBA # <<>>) => hitAB[1] = hitBA[1]

C5_Witness ==
    /\ hitAB = <<TRUE>> /\ hitBA = <<TRUE>>
    /\ ra.w = 0 /\ rb.h > 0
    /\ ra # rb

----------------------------------------------------------------------------
(* Properties of the frame loop *)

\* simulation steps a sprite born in frame born has been through
StepsDone(born) ==
    IF pc \in {"poll", "ui", "spawn", "update"} THEN frame - born
    ELSE frame - born + 1

\* C1: a sprite's lifetime goes down by exactly one per step: after k steps
\* it is L - k, L being its lifetime when it was spawned; the sprite leaves
\* the collection in the step that brings it to 0 and is never in it again.
C1_LifetimeCountdown ==
    /\ \A i \in DOMAIN sprites :
         LET e == ledger[sprites[i].id]
         IN  /\ sprites[i].lifetime = e.life - StepsDone(e.born)
             /\ e.died = 0
    /\ pc \notin {"collide", "expire"} =>
         \A i \in DOMAIN sprites : sprites[i].lifetime >= 1
    /\ \A k \in DOMAIN ledger :
         IF ledger[k].died = 0
         THEN Cardinality({i \in DOMAIN sprites : sprites[i].id = k}) = 1
         ELSE ledger[k].died = ledger[k].born + ledger[k].life - 1

C1_Witness ==
    /\ \E k \in DOMAIN ledger : ledger[k].died # 0 /\ ledger[k].died < frame
    /\ \E i \in DOMAIN sprites :
         sprites[i].lifetime + 50 < ledger[sprites[i].id].life

C2_GateStep ==
    /\ pc = "spawn" =>
         IF spawnTimer + 1 > 30
         THEN /\ Len(sprites') = Len(sprites) + 1
              /\ SubSeq(sprites', 1, Len(sprites)) = sprites
              /\ spawnTimer' = 0
         ELSE /\ sprites' = sprites
              /\ spawnTimer' = spawnTimer + 1
    /\ pc # "spawn" =>
         /\ Len(sprites') <= Len(sprites)
         /\ pc # "ui" => spawnTimer' = spawnTimer

C2_Every31st ==
    /\ nextId = Len(ledger)
    /\ \A k \in DOMAIN ledger : ledger[k].born = 31 * k
    /\ pc \in {"poll", "ui", "spawn"} =>
         /\ spawnTimer = (frame - 1) % 31
         /\ nextId = (frame - 1) \div 31
    /\ pc \in {"update", "collide", "expire", "expire2", "render", "loop",
                "done"} =>
         /\ spawnTimer = frame % 31
         /\ nextId = frame \div 31

\* C2: every step adds 1 to spawnTimer; when the incremented counter exceeds
\* 30 exactly one sprite is appended at the end of the collection and the
\* counter is set to 0, otherwise nothing is appended and the counter keeps
\* the incremented value; with no write from outside, a sprite is spawned in
\* every 31st step and in no other.
C2_SpawnGating ==
    /\ []C2_Every31st
    /\ [][C2_GateStep]_vars

C2_Witness ==
    /\ pc = "update"
    /\ frame = 62
    /\ spawnTimer = 0
    /\ Len(sprites) = 2

\* C3 (as claimed): the slider value is the threshold the counter is compared
\* against, and dragging the slider leaves the frame counter as it is.
C3_ThresholdTunable ==
    [][ /\ pc = "ui" => spawnTimer' = spawnTimer
        /\ (pc = "spawn" /\ slid # NoDrag) =>
              ((Len(sprites') = Len(sprites) + 1) <=> (spawnTimer + 1 > slid))
      ]_vars

NonZeroSpeeds == (-5 .. -1) \cup (1 .. 5)

\* C6: no sprite ever has a zero velocity component: the spawner gives each
\* component a magnitude in 1..5, and integration, bounces and collision
\* responses keep it non-zero.
C6_VelocityNonZero ==
    \A i \in DOMAIN sprites :
        /\ sprites[i].speedX \in NonZeroSpeeds
        /\ sprites[i].speedY \in NonZeroSpeeds

C6_Witness ==
    /\ pc = "expire"
    /\ hits >= 1
    /\ \E i \in DOMAIN sprites :
         sprites[i].rect.x + sprites[i].rect.w >= 800
    /\ \E i \in DOMAIN sprites : sprites[i].speedX = -5
    /\ \E i \in DOMAIN sprites : sprites[i].speedY = 1

\* C7: every sprite the spawner returns has a 50x50 rectangle inside the
\* 800x600 screen, a lifetime in 100..400 and a texture of the registry.
C7_SpawnedInBounds ==
    [][ (pc = "spawn" /\ Len(sprites') > Len(sprites)) =>
          LET s == sprites'[Len(sprites')]
          IN  /\ s.rect.w = 50 /\ s.rect.h = 50
              /\ 0 <= s.rect.x /\ s.rect.x + 50 <= 800
              /\ 0 <= s.rect.y /\ s.rect.y + 50 <= 600
              /\ 100 <= s.lifetime /\ s.lifetime <= 400
              /\ \E k \in DOMAIN textures :
                    textures[k] = s.texture /\ s.texture # NullTexture
      ]_vars

C7_Witness ==
    /\ pc = "update"
    /\ spawnTimer = 0
    /\ Len(sprites) >= 1
    /\ LET s == sprites[Len(sprites)]
       IN  /\ s.id = nextId
           /\ ledger[nextId].born = frame
           /\ s.rect.x + 50 = 799 /\ s.rect.y + 50 = 599
           /\ s.lifetime = 399

\* q is n / 1000 with the fraction dropped (toward zero)
IsTruncated(q, n) ==
    IF n >= 0 THEN q >= 0 /\ q * 1000 <= n /\ n < (q + 1) * 1000
    ELSE q <= 0 /\ q * 1000 >= n /\ n > (q - 1) * 1000

\* the lone sprite of the 795 example, one 17 ms frame on
EdgeSprite ==
    [rect |-> [x |-> 795, y |-> 300, w |-> 50, h |-> 50],
     speedX |-> 3, speedY |-> 0, lifetime |-> 5, texture |-> 1]
EdgeSpriteAfter == CollideAll(UpdateAll(<<EdgeSprite>>, 17))[1]

C8_UpdateStep ==
    pc = "update" =>
      /\ Len(sprites') = Len(sprites)
      /\ \A i \in DOMAIN sprites :
           LET a == sprites[i]
               b == sprites'[i]
           IN  /\ IsTruncated(b.rect.x - a.rect.x, a.speedX * deltaTime' * 60)
               /\ IsTruncated(b.rect.y - a.rect.y, a.speedY * deltaTime' * 60)
               /\ b.rect.w = a.rect.w /\ b.rect.h = a.rect.h
               /\ b.speedX = IF b.rect.x <= 0 \/ b.rect.x + b.rect.w >= 800
                              THEN -a.speedX ELSE a.speedX
               /\ b.speedY = IF b.rect.y <= 0 \/ b.rect.y + b.rect.h >= 600
                              THEN -a.speedY ELSE a.speedY
               /\ b.lifetime = a.lifetime - 1

\* C8: after a sprite's position is integrated, its x-velocity is negated
\* exactly when x <= 0 or x + w >= 800 and its y-velocity exactly when y <= 0
\* or y + h >= 600, each axis on its own, and the bounce leaves the position
\* as integrated; the lone sprite {x=795, w=50, vx=3, vy=0, life=5} ends a
\* frame with vx = -3 and life = 4.
C8_BoundaryBounce ==
    /\ [][C8_UpdateStep]_vars
    /\ [](/\ EdgeSpriteAfter.speedX = -3
          /\ EdgeSpriteAfter.speedY = 0
          /\ EdgeSpriteAfter.lifetime = 4
          /\ EdgeSpriteAfter.rect.x = 798)

AtBoundX(s) == s.rect.x <= 0 \/ s.rect.x + s.rect.w >= 800
AtBoundY(s) == s.rect.y <= 0 \/ s.rect.y + s.rect.h >= 600

C8_Witness ==
    /\ pc = "collide"
    /\ \E i \in DOMAIN sprites : AtBoundX(sprites[i]) /\ AtBoundY(sprites[i])
    /\ \E i \in DOMAIN sprites : AtBoundX(sprites[i]) /\ ~AtBoundY(sprites[i])
    /\ \E i \in DOMAIN sprites : ~AtBoundX(sprites[i]) /\ ~AtBoundY(sprites[i])

\* C9 (as claimed): a sprite that ends a step at or past a screen bound has,
\* on that axis, a velocity pointing back into the screen.
C9_PointsInward ==
    pc = "render" =>
      \A i \in DOMAIN sprites :
        LET s == sprites[i]
        IN  /\ s.rect.x <= 0 => s.speedX > 0
            /\ s.rect.x + s.rect.w >= 800 => s.speedX < 0
            /\ s.rect.y <= 0 => s.speedY > 0
            /\ s.rect.y + s.rect.h >= 600 => s.speedY < 0

\* the two sprites of the identical-bounds example
TwinA ==
    [rect |-> [x |-> 100, y |-> 100, w |-> 50, h |-> 50],
     speedX |-> 2, speedY |-> 0, lifetime |-> 9, texture |-> 1]
TwinB == [TwinA EXCEPT !.speedX = -2]
TwinsAfter == CollideAll(<<TwinA, TwinB>>)

Overlapping(a, b) ==
    /\ a.x < b.x + b.w /\ b.x < a.x + a.w
    /\ a.y < b.y + b.h /\ b.y < a.y + a.h

C10_CollideStep ==
    (/\ pc = "collide"
     /\ Len(sprites) = 2
     /\ Overlapping(sprites[1].rect, sprites[2].rect)
     /\ \A i \in {1, 2} : ~AtBoundX(sprites[i]) /\ ~AtBoundY(sprites[i]))
    => /\ Len(sprites') = 2
       /\ \A i \in {1, 2} :
            /\ sprites'[i].speedX = -sprites[i].speedX
            /\ sprites'[i].speedY = -sprites[i].speedY

\* C10: when the collection holds exactly two sprites whose rectangles
\* overlap after integration and neither bounced off a bound in the step,
\* the step leaves both velocities negated on both axes, whatever the
\* direction of contact; identical bounds with velocities (2,0) and (-2,0)
\* end with (-2,0) and (2,0).
C10_PairNegated ==
    /\ [][C10_CollideStep]_vars
    /\ [](/\ TwinsAfter[1].speedX = -2 /\ TwinsAfter[1].speedY = 0
          /\ TwinsAfter[2].speedX = 2 /\ TwinsAfter[2].speedY = 0)

C10_Witness ==
    /\ pc = "expire"
    /\ Len(sprites) = 2
    /\ hits = 1
    /\ \A i \in {1, 2} :
         /\ 1 < sprites[i].rect.x /\ sprites[i].rect.x + 50 < 799
         /\ 1 < sprites[i].rect.y /\ sprites[i].rect.y + 50 < 599

\* ---- the collision pass, pair by pair ----

Abs(n) == IF n < 0 THEN -n ELSE n

\* the unordered pairs of a collection of n sprites, lower index first, and
\* the order "earlier sprite first, then earlier partner first"
PairSet(n) == { p \in (1..n) \X (1..n) : p[1] < p[2] }
PairBefore(p, q) == p[1] < q[1] \/ (p[1] = q[1] /\ p[2] < q[2])
\* the pairs in that order: PairsBelow(n, i) of them have a first sprite
\* earlier than i
PairsBelow(n, i) == (i - 1) * n - ((i - 1) * i) \div 2
PairOrder(n) ==
    [k \in 1..PairsBelow(n, n) |->
        LET i == CHOOSE i \in 1..n :
                   PairsBelow(n, i) < k /\ k <= PairsBelow(n, i + 1)
        IN  <<i, i + (k - PairsBelow(n, i))>>]

\* the response to one pair as the specification words it: nothing unless
\* the rectangles overlap; then both velocities are negated, and on each axis
\* the sprite with the strictly smaller coordinate moves by -1 and the other
\* by +1, the first of the pair moving by +1 on a tie
PairShift(p, q) == IF p < q THEN -1 ELSE 1
PairResponse(seq, i, j) ==
    IF Overlapping(seq[i].rect, seq[j].rect)
    THEN LET dx == PairShift(seq[i].rect.x, seq[j].rect.x)
             dy == PairShift(seq[i].rect.y, seq[j].rect.y)
         IN  [seq EXCEPT ![i] = [@ EXCEPT !.speedX = -@, !.speedY = -@,
                                          !.rect.x = @ + dx, !.rect.y = @ + dy],
                         ![j] = [@ EXCEPT !.speedX = -@, !.speedY = -@,
                                          !.rect.x = @ - dx, !.rect.y = @ - dy]]
    ELSE seq

\* the collection after the first k pairs of order have been responded to
RECURSIVE AfterPairs(_, _, _)
AfterPairs(seq, order, k) ==
    IF k = 0 THEN seq
    ELSE PairResponse(AfterPairs(seq, order, k - 1), order[k][1], order[k][2])

\* the collections a pass over seq goes through: the one the k-th pair of
\* order meets at place k, the one the pass leaves at the last place
RECURSIVE PairStates(_, _, _)
PairStates(seq, order, k) ==
    IF k > Len(order) THEN <<seq>>
    ELSE <<seq>> \o PairStates(PairResponse(seq, order[k][1], order[k][2]),
                               order, k + 1)

C11_CollideStep ==
    pc = "collide" =>
      LET order == PairOrder(Len(sprites))
          m == Len(order)
          states == PairStates(sprites, order, 1)
      IN  /\ Len(sprites') = Len(sprites)
          /\ \A i \in DOMAIN sprites :
                sprites'[i].rect = states[m + 1][i].rect
          /\ \A k \in 1..m :
                LET b == states[k]
                    a == states[k + 1]
                    i == order[k][1]
                    j == order[k][2]
                IN  IF b[i].rect.x < b[j].rect.x + 50 /\ b[j].rect.x < b[i].rect.x + 50
                       /\ b[i].rect.y < b[j].rect.y + 50 /\ b[j].rect.y < b[i].rect.y + 50
                    THEN /\ a[i].rect.x = b[i].rect.x + (IF b[i].rect.x < b[j].rect.x THEN -1 ELSE 1)
                         /\ a[j].rect.x = b[j].rect.x + (IF b[i].rect.x < b[j].rect.x THEN 1 ELSE -1)
                         /\ a[i].rect.y = b[i].rect.y + (IF b[i].rect.y < b[j].rect.y THEN -1 ELSE 1)
                         /\ a[j].rect.y = b[j].rect.y + (IF b[i].rect.y < b[j].rect.y THEN 1 ELSE -1)
                         /\ Abs(a[i].rect.x - a[j].rect.x) = Abs(b[i].rect.x - b[j].rect.x) + 2
                         /\ Abs(a[i].rect.y - a[j].rect.y) = Abs(b[i].rect.y - b[j].rect.y) + 2
                         /\ \A n \in DOMAIN sprites \ {i, j} : a[n] = b[n]
                    ELSE a = b

\* C11: the response to a colliding pair (i, j), i earlier in the collection,
\* moves on each axis the sprite with the strictly smaller coordinate by -1
\* and the other by +1, and on a tie moves i by +1 and j by -1; so each
\* response changes each coordinate of both sprites by exactly 1 and makes
\* |x_i - x_j| and |y_i - y_j| larger by exactly 2. The positions a collision
\* pass leaves are those of these responses applied pair after pair.
C11_Separation == [][C11_CollideStep]_vars

\* a pass over two sprites that collided while tied on both axes
C11_Witness ==
    /\ pc = "expire"
    /\ Len(sprites) = 2
    /\ hits = 1
    /\ sprites[1].rect.x - sprites[2].rect.x = 2
    /\ sprites[1].rect.y - sprites[2].rect.y = 2

\* ---- expiration ----

C12_ExpireStep ==
    pc \in {"expire", "expire2"} =>
      sprites' = SelectSeq(sprites, LAMBDA s : s.lifetime > 0)

\* C12: when a step's expiration is over, exactly the sprites that entered it
\* with lifetime <= 0 are gone and the others remain in their order, also
\* when adjacent sprites or the last sprite expire in the same step; every
\* sprite that is rendered has a lifetime of at least 1.
C12_ExactFilter ==
    /\ [][C12_ExpireStep]_vars
    /\ [](pc = "render" => \A i \in DOMAIN sprites : sprites[i].lifetime >= 1)

\* the two sprites of the collection, adjacent and the second one the last,
\* expired in the same step
C12_Witness ==
    /\ pc = "expire2"
    /\ sprites = <<>>
    /\ Len(ledger) = 2
    /\ ledger[1].died = frame
    /\ ledger[2].died = frame

\* ---- startup and shutdown ----

\* C13: a texture that fails to load is fatal before the frame loop: when any
\* of the three handles is null the program goes to its error exit straight
\* from the check, and no phase of any frame, so no simulation step and no
\* spawn, is ever reached with an empty registry or one holding a null
\* handle.
C13_LoadFailureFatal ==
    /\ [](pc \notin {"load", "check", "failed"} =>
            /\ Len(textures) = 3
            /\ \A i \in DOMAIN textures : textures[i] # NullTexture)
    /\ [](pc \in {"load", "check", "failed"} =>
            frame = 0 /\ sprites = <<>> /\ nextId = 0 /\ spawnTimer = 0)
    /\ [](\A i \in DOMAIN sprites : sprites[i].texture # NullTexture)
    /\ [][(pc = "check" /\ \E i \in DOMAIN textures : textures[i] = NullTexture)
            => pc' = "failed"]_vars
    /\ [][pc = "failed" => pc' = "failed"]_vars

\* the error exit taken although the first texture was loaded
C13_Witness ==
    /\ pc = "failed"
    /\ textures[1] # NullTexture
    /\ \E i \in DOMAIN textures : textures[i] = NullTexture

\* the place of a phase in the frame, the loop test being the last
PhaseRank(p) ==
    CASE p = "poll" -> 1 [] p = "ui" -> 2 [] p = "spawn" -> 3
      [] p = "update" -> 4 [] p = "collide" -> 5 [] p = "expire" -> 6
      [] p = "expire2" -> 7 [] p = "render" -> 8 [] p = "loop" -> 9
      [] OTHER -> 10

C14_FrameStep ==
    /\ ~isRunning => ~isRunning'
    /\ isRunning' # isRunning => pc = "poll"
    /\ PhaseRank(pc) < 9 => PhaseRank(pc') = PhaseRank(pc) + 1
    /\ pc = "loop" => pc' = IF isRunning THEN "poll" ELSE "done"
    /\ frame' # frame => isRunning /\ pc = "loop" /\ frame' = frame + 1
    /\ pc = "done" => pc' = "done"

\* C14: the quit signal is acted on only at the loop test: the frame in which
\* the quit event is polled runs all its phases up to the render, no phase
\* being skipped, no further frame begins, and the program reaches its
\* shutdown, so every phase of the steps on the way, whatever the collection,
\* comes to its end.
C14_QuitBetweenFrames ==
    /\ [][C14_FrameStep]_vars
    /\ [](pc = "done" => ~isRunning)
    /\ (~isRunning ~> pc = "done")

\* shutdown after a frame that polled the quit event and still spawned a
\* sprite, integrated it and rendered
C14_Witness ==
    /\ pc = "done"
    /\ Len(sprites) >= 1
    /\ ledger[sprites[Len(sprites)].id].born = frame
    /\ sprites[Len(sprites)].lifetime = ledger[sprites[Len(sprites)].id].life - 1

\* ---- the empty collection ----

C15_EmptyStep ==
    sprites = <<>> =>
      /\ pc \in {"update", "collide", "expire", "expire2"} =>
           /\ sprites' = <<>>
           /\ spawnTimer' = spawnTimer
           /\ nextId' = nextId /\ ledger' = ledger
           /\ textures' = textures /\ isRunning' = isRunning
      /\ (pc = "spawn" /\ spawnTimer + 1 <= 30) =>
           /\ sprites' = <<>>
           /\ spawnTimer' = spawnTimer + 1
           /\ nextId' = nextId /\ ledger' = ledger
           /\ textures' = textures /\ isRunning' = isRunning

\* C15: on an empty collection the integration, collision and expiration
\* passes change nothing; a step that starts with an empty collection and
\* does not spawn ends with an empty collection, having changed only the
\* frame counter of the spawn gate, by one.
C15_EmptyNoOp == [][C15_EmptyStep]_vars

\* a step without a spawn that ran on the collection after its last sprite
\* had expired
C15_Witness ==
    /\ pc = "render"
    /\ sprites = <<>>
    /\ nextId = 2
    /\ \A i \in DOMAIN ledger : ledger[i].died # 0 /\ ledger[i].died < frame
    /\ spawnTimer > 0

\* ---- order of the passes ----

C16_PassStep ==
    /\ pc = "spawn" =>
         /\ pc' = "update"
         /\ Len(sprites') \in {Len(sprites), Len(sprites) + 1}
         /\ \A i \in DOMAIN sprites : sprites'[i] = sprites[i]
    /\ pc = "update" =>
         /\ pc' = "collide"
         /\ Len(sprites') = Len(sprites)
         /\ \A i \in DOMAIN sprites :
              sprites'[i].lifetime = sprites[i].lifetime - 1
    /\ pc = "collide" =>
         /\ pc' = "expire"
         /\ Len(sprites') = Len(sprites)
         /\ \A i \in DOMAIN sprites :
              sprites'[i].lifetime = sprites[i].lifetime
         /\ LET order == PairOrder(Len(sprites))
            IN  sprites' = AfterPairs(sprites, order, Len(order))
    /\ pc = "expire" => pc' = "expire2"
    /\ pc = "expire2" => pc' = "render"

\* C16: in a step the spawn gate comes first, then every sprite, the one
\* spawned in this step included, is integrated, bounce-checked and aged,
\* then the collision pass runs, and expiration comes last; so a sprite is
\* first rendered with its initial lifetime less 1, and a sprite whose
\* lifetime reaches 0 in a step is still in the collection for that step's
\* collision pass, where it negates and displaces its partner, and is gone
\* only after it.
C16_PassOrder ==
    /\ [][C16_PassStep]_vars
    /\ [](pc = "render" =>
            \A i \in DOMAIN sprites :
              ledger[sprites[i].id].born = frame =>
                sprites[i].lifetime = ledger[sprites[i].id].life - 1)
    /\ [](pc \notin {"collide", "expire"} =>
            \A i \in DOMAIN sprites : sprites[i].lifetime >= 1)

\* the one collision of the step was with the sprite whose lifetime the step
\* brought to 0: no pair without that sprite is near enough to have collided
C16_Witness ==
    /\ pc = "expire"
    /\ hits = 1
    /\ sprites[1].lifetime = 0
    /\ \E k \in DOMAIN sprites :
         /\ k # 1
         /\ sprites[k].lifetime > 0
         /\ Overlapping(sprites[1].rect, sprites[k].rect)
    /\ \A p \in PairSet(Len(sprites)) :
         p[1] # 1 =>
           \/ Abs(sprites[p[1]].rect.x - sprites[p[2]].rect.x) >= 52
           \/ Abs(sprites[p[1]].rect.y - sprites[p[2]].rect.y) >= 52

\* ---- integration ----

\* what integration added to a coordinate that was p before the update pass
\* and is q after it: the update pass changes positions in no other way
C17_UpdateStep ==
    pc = "update" =>
      /\ Len(sprites') = Len(sprites)
      /\ \A i \in DOMAIN sprites :
           LET s == sprites[i]
               dx == sprites'[i].rect.x - s.rect.x
               dy == sprites'[i].rect.y - s.rect.y
           IN  /\ IsTruncated(dx, s.speedX * deltaTime' * 60)
               /\ IsTruncated(dy, s.speedY * deltaTime' * 60)
               /\ deltaTime' = 17 => dx = s.speedX /\ dy = s.speedY
               /\ Abs(s.speedX * deltaTime' * 60) < 1000 => dx = 0
               /\ Abs(s.speedY * deltaTime' * 60) < 1000 => dy = 0
               /\ \A j \in DOMAIN sprites :
                    /\ sprites[j].speedX = -s.speedX =>
                         sprites'[j].rect.x - sprites[j].rect.x = -dx
                    /\ sprites[j].speedY = -s.speedY =>
                         sprites'[j].rect.y - sprites[j].rect.y = -dy
                    /\ sprites[j].speedX = -s.speedY =>
                         sprites'[j].rect.x - sprites[j].rect.x = -dy
      /\ \A v \in 1..5 :
           Displacement(-v, deltaTime') = -Displacement(v, deltaTime')

\* C17: in each step a sprite's x (y) changes by speedX (speedY) * deltaTime
\* * 60 with its fraction dropped, that is, truncated toward zero; so at the
\* frame time of 60 frames a second (17 ticks) the displacement is the
\* velocity, velocities v and -v give displacements that are each other's
\* negation, and a product of magnitude below 1 leaves the coordinate as it
\* was. (deltaTime is counted in ticks of 1/1000 s, so the products are
\* compared in thousandths.)
C17_TruncatesTowardZero == [][C17_UpdateStep]_vars

\* a sprite spawned at (0, 0) with velocity (-1, -1) after a 16-tick update:
\* the product -0.96 moved it by 0, not by -1, and the bound turned it round
C17_Witness ==
    /\ pc = "collide"
    /\ frame = 1
    /\ deltaTime = 16
    /\ Len(sprites) = 1
    /\ sprites[1].rect.x = 0 /\ sprites[1].rect.y = 0
    /\ sprites[1].speedX = 1 /\ sprites[1].speedY = 1

\* ---- the pairs of a collision pass ----

\* the places in the pair order of a pass over seq at which the pair was
\* found overlapping, the positions being those the earlier responses left
CollidingTests(seq) ==
    LET order == PairOrder(Len(seq))
        states == PairStates(seq, order, 1)
    IN  { k \in DOMAIN order :
            Overlapping(states[k][order[k][1]].rect,
                        states[k][order[k][2]].rect) }

MinusOneToThe(c) == IF c % 2 = 0 THEN 1 ELSE -1

C18_CollideStep ==
    pc = "collide" =>
      LET order == PairOrder(Len(sprites))
          tests == CollidingTests(sprites)
      IN  /\ \A p \in PairSet(Len(sprites)) :
                Cardinality({ k \in DOMAIN order : order[k] = p }) = 1
          /\ \A k \in DOMAIN order : \A l \in DOMAIN order :
                k < l => PairBefore(order[k], order[l])
          /\ hits' = Cardinality(tests)
          /\ \A i \in DOMAIN sprites :
                LET c == Cardinality({ k \in tests :
                                        i \in {order[k][1], order[k][2]} })
                IN  /\ sprites'[i].speedX = sprites[i].speedX * MinusOneToThe(c)
                    /\ sprites'[i].speedY = sprites[i].speedY * MinusOneToThe(c)
                    /\ c % 2 = 0 => /\ sprites'[i].speedX = sprites[i].speedX
                                    /\ sprites'[i].speedY = sprites[i].speedY

\* C18: a collision pass tests each unordered pair of distinct sprites once,
\* the pairs taken in collection order (i < j) and each test seeing the
\* positions the earlier responses of the pass left; a sprite leaves the pass
\* with its velocity multiplied by (-1)^c, c being the number of collisions
\* of the pass it took part in, so with its velocity unchanged when c is
\* even.
C18_PairsOnceParity == [][C18_CollideStep]_vars

\* three sprites of which every pair collided in the pass: each took part in
\* two collisions
C18_Witness ==
    /\ pc = "expire"
    /\ Len(sprites) = 3
    /\ hits = 3

\* ---- size of the collection ----

C19_SizeStep ==
    /\ Len(sprites') > Len(sprites) =>
         /\ pc = "spawn"
         /\ Len(sprites') = Len(sprites) + 1
         /\ spawnTimer + 1 > 30
    /\ Len(sprites') < Len(sprites) =>
         /\ pc \in {"expire", "expire2"}
         /\ sprites' = SelectSeq(sprites, LAMBDA s : s.lifetime > 0)
    /\ (pc = "spawn" /\ Len(sprites') > Len(sprites) /\ nextId > 0) =>
         frame = ledger[nextId].born + 31

\* C19: while nothing but the spawn gate writes the frame counter, a spawn
\* happens only every 31st step and a sprite is gone fewer than 400 steps
\* after its spawn, so the collection never holds more than 13 sprites; its
\* size changes only by +1 at a spawn and by the removal of expired sprites
\* in an expiration pass.
C19_BoundedCollection ==
    /\ [](Len(sprites) <= 13)
    /\ [](\A i \in DOMAIN sprites : frame - ledger[sprites[i].id].born < 400)
    /\ [][C19_SizeStep]_vars

\* thirteen sprites, all of the longest lifetime, the first about to expire
C19_Witness ==
    /\ Len(sprites) = 13
    /\ pc = "render"
    /\ \A i \in DOMAIN sprites : ledger[sprites[i].id].life = 399

\* ---- what a step leaves alone ----

C20_KeepStep ==
    /\ \A i \in DOMAIN sprites : \A j \in DOMAIN sprites' :
         sprites'[j].id = sprites[i].id =>
           /\ sprites'[j].rect.w = sprites[i].rect.w
           /\ sprites'[j].rect.h = sprites[i].rect.h
           /\ sprites'[j].texture = sprites[i].texture
           /\ Abs(sprites'[j].speedX) = Abs(sprites[i].speedX)
           /\ Abs(sprites'[j].speedY) = Abs(sprites[i].speedY)
    /\ pc = "expire2" => sprites' = sprites

\* C20: a step never changes a sprite's width, height, texture handle or the
\* magnitude of a velocity component: all through its life a sprite is 50 by
\* 50, |speedX| and |speedY| are those of its spawn and its texture is the
\* registry element chosen at its spawn (the sprites of lifetime 100 are
\* spawned with velocity (-1, -1) and the first texture, those of lifetime
\* 131 with (-3, 5) and the third); and the second expiration pass of a step
\* removes nothing.
C20_StepInvariants ==
    /\ [][C20_KeepStep]_vars
    /\ [](\A i \in DOMAIN sprites :
            LET s == sprites[i]
                e == ledger[s.id]
            IN  /\ s.rect.w = 50 /\ s.rect.h = 50
                /\ e.life = 100 => /\ Abs(s.speedX) = 1 /\ Abs(s.speedY) = 1
                                   /\ s.texture = textures[1]
                /\ e.life = 131 => /\ Abs(s.speedX) = 3 /\ Abs(s.speedY) = 5
                                   /\ s.texture = textures[3])

\* after the second expiration pass of a step whose first pass removed two
\* sprites at once, a sprite is left that was spawned with speedX = -3 and
\* has turned round
C20_Witness ==
    /\ pc = "render"
    /\ Cardinality({ d \in DOMAIN ledger : ledger[d].died = frame }) = 2
    /\ \E i \in DOMAIN sprites :
         /\ ledger[sprites[i].id].life = 131
         /\ sprites[i].speedX = 3

====
